---- MODULE Spec2Model ----
(***************************************************************************)
(* Model of the Logs panel component                                       *)
(* (packages/grafana-ui/src/components/Logs/Logs.tsx): the staged          *)
(* rendering driven by two timers, the duplicate aggregation done in       *)
(* render(), and the dedup-strategy toggle forwarded to the props' owner.  *)
(*                                                                         *)
(* Optional values of the source (data?, dedupedData?, row.duplicates,     *)
(* data.rows) are record fields that may be missing from the record.       *)
(***************************************************************************)
EXTENDS Integers, Sequences, FiniteSets, TLC

VARIABLES
    props,          \* this.props: dedupStrategy, and optionally data, dedupedData
    state,          \* this.state: deferLogs, renderAll, showLabels, showTime
    deferLogsTimer, \* this.deferLogsTimer: a timer handle, or NoTimer
    renderAllTimer, \* this.renderAllTimer: a timer handle, or NoTimer
    timers,         \* the host's timers, indexed by handle
    lifecycle,      \* "constructed", "mounted" or "unmounted"
    initialCount,   \* rowCount as computed by componentDidMount
    owner,          \* the calls received by props.onDedupStrategyChange
    levelOwner      \* the calls received by props.onToggleLogLevel

vars == <<props, state, deferLogsTimer, renderAllTimer, timers, lifecycle,
          initialCount, owner, levelOwner>>

----------------------------------------------------------------------------
(* Program constants *)

PREVIEW_LIMIT == 100

RENDER_ALL_DELAY == 2000

NoTimer == 0

LogsDedupStrategy == {"none", "exact", "numbers", "signature"}

\* the LogLevel enumeration: the level names and the level each stands for
LogLevel == [info |-> "info", warn |-> "warning", warning |-> "warning", error |-> "error"]

----------------------------------------------------------------------------
(* Bounds of the model *)

\* the largest raw row count delivered
MaxRows == 250

\* the largest number of raw rows the dedup stage folds into one row
MaxFold == 3

\* the number of calls of a handler followed
MaxCalls == 2

\* the largest number of level names in one toggle
MaxLevels == 2

----------------------------------------------------------------------------
(* The inputs: what the producer of the props delivers *)

Min(a, b) == IF a < b THEN a ELSE b

RowCounts == {0, 9, 2 * PREVIEW_LIMIT, 2 * PREVIEW_LIMIT + 1, MaxRows}

\* the raw rows: row i is entry i
RawRows(n) == [i \in 1..n |-> [entry |-> i]]

\* the rows left when each run of k raw rows is folded into its first row;
\* an unfolded set (k = 1) carries no duplicate counts
FoldedRows(n, k) ==
    [j \in 1..((n + k - 1) \div k) |->
        IF k = 1
        THEN [entry |-> j]
        ELSE [entry |-> (j - 1) * k + 1,
              duplicates |-> Min(k, n - (j - 1) * k) - 1]]

\* nine raw rows folded into four with duplicate counts 0, 3, 0, 2
SampleRows ==
    << [entry |-> 1, duplicates |-> 0], [entry |-> 2, duplicates |-> 3],
       [entry |-> 6, duplicates |-> 0], [entry |-> 7, duplicates |-> 2] >>

\* the same rows, the first without a duplicate count
SampleRowsMissing == [SampleRows EXCEPT ![1] = [entry |-> 1]]

DedupedFor(n) ==
    { [rows |-> FoldedRows(n, k), hasUniqueLabels |-> (k = 1)] : k \in {1, MaxFold} }
    \cup (IF n = 9
          THEN { [rows |-> SampleRows, hasUniqueLabels |-> TRUE],
                 [rows |-> SampleRowsMissing, hasUniqueLabels |-> FALSE] }
          ELSE {})

\* the metadata the producer sends with a raw set
SampleMeta == << [label |-> "Common labels", value |-> "job", kind |-> "LabelsMap"] >>

\* the raw set of n rows, with metadata or (for the small sets) without
DataFor(n) ==
    { [rows |-> RawRows(n)] }
    \cup (IF n <= 9 THEN { [rows |-> RawRows(n), meta |-> SampleMeta] } ELSE {})

\* the record rec with the field f set to v
WithField(rec, f, v) ==
    [g \in DOMAIN rec \cup {f} |-> IF g = f THEN v ELSE rec[g]]

\* a delivery with the loading and scanning flags the owner may pass with it
WithFlags(delivery) ==
    { delivery,
      WithField(delivery, "loading", TRUE),
      WithField(delivery, "scanning", TRUE),
      WithField(WithField(delivery, "loading", TRUE), "scanning", TRUE) }

\* a delivery: the raw set and the parallel deduplicated set, each optional;
\* the flags come with the deliveries that have no row
Deliveries ==
    WithFlags([x \in {} |-> 0])
    \cup WithFlags([data |-> [rows |-> RawRows(0)]])
    \cup { [data |-> [meta |-> <<>>]] }
    \cup UNION { { [data |-> d] }
                 \cup { [data |-> d, dedupedData |-> dd] : dd \in DedupedFor(n) } :
                 <<n, d>> \in UNION { { <<m, e>> : e \in DataFor(m) } : m \in RowCounts } }

WithStrategy(delivery, strategy) ==
    [f \in DOMAIN delivery \cup {"dedupStrategy"} |->
        IF f = "dedupStrategy" THEN strategy ELSE delivery[f]]

PropsSpace ==
    { WithStrategy(d, s) : d \in Deliveries, s \in LogsDedupStrategy }

----------------------------------------------------------------------------
(* JavaScript helpers *)

\* Array.prototype.slice(begin, end) and slice(begin), 0-based, end exclusive
Slice(s, begin, end) == SubSeq(s, begin + 1, Min(end, Len(s)))

SliceFrom(s, begin) == SubSeq(s, begin + 1, Len(s))

\* this.setState(partial): the partial state merged into the current one
Merge(cur, partial) ==
    [f \in DOMAIN cur |-> IF f \in DOMAIN partial THEN partial[f] ELSE cur[f]]

\* setTimeout(callback, delay) returns the handle of the new timer
NextHandle(tq) == Len(tq) + 1

\* clearTimeout(handle): a pending timer never fires; otherwise nothing
ClearTimeout(tq, h) ==
    IF h \in DOMAIN tq /\ tq[h].status = "pending"
    THEN [tq EXCEPT ![h].status = "cleared"]
    ELSE tq

----------------------------------------------------------------------------
(* Initial state: the component constructed with its first props *)

Init ==
    /\ props \in PropsSpace
    /\ state = [deferLogs |-> TRUE, renderAll |-> FALSE,
                showLabels |-> FALSE, showTime |-> TRUE]
    /\ deferLogsTimer = NoTimer
    /\ renderAllTimer = NoTimer
    /\ timers = <<>>
    /\ lifecycle = "constructed"
    /\ initialCount = 0
    /\ owner = [calls |-> 0]
    /\ levelOwner = [toggles |-> 0]

----------------------------------------------------------------------------
(* render(): the values derived from props and state *)

\* const hasData = data && data.rows && data.rows.length > 0
hasData(p) ==
    /\ "data" \in DOMAIN p
    /\ "rows" \in DOMAIN p.data
    /\ Len(p.data.rows) > 0

\* a callback counting the rows that have duplicates
addDuplicates_count(sum, row) ==
    IF "duplicates" \in DOMAIN row /\ row.duplicates # 0
    THEN sum + 1
    ELSE sum

\* (sum, row) => (row.duplicates ? sum + row.duplicates : sum)
addDuplicates(sum, row) ==
    IF "duplicates" \in DOMAIN row /\ row.duplicates # 0
    THEN sum + row.duplicates
    ELSE sum

\* rows.reduce(addDuplicates, sum) over rows[lo..hi]: the rows are visited in
\* order, each receiving the sum left by the rows before it. The range is
\* halved, and sum (a number) is looked at before the rows that follow it, only
\* to keep the evaluation shallow.
RECURSIVE ReduceDuplicates(_, _, _, _)
ReduceDuplicates(rows, sum, lo, hi) ==
    IF lo > hi \/ sum \notin Int
    THEN sum
    ELSE IF lo = hi
         THEN addDuplicates(sum, rows[lo])
         ELSE ReduceDuplicates(rows,
                  ReduceDuplicates(rows, sum, lo, (lo + hi) \div 2),
                  (lo + hi) \div 2 + 1, hi)

dedupCount(p) ==
    IF "dedupedData" \in DOMAIN p
    THEN ReduceDuplicates(p.dedupedData.rows, 0, 1, Len(p.dedupedData.rows))
    ELSE 0

showDuplicates(p) == p.dedupStrategy # "none" /\ dedupCount(p) > 0

hasLabel(p) ==
    hasData(p) /\ "dedupedData" \in DOMAIN p /\ p.dedupedData.hasUniqueLabels

processedRows(p) == IF "dedupedData" \in DOMAIN p THEN p.dedupedData.rows ELSE <<>>

\* the first set cut one row short
firstRows_short(p) == Slice(processedRows(p), 0, PREVIEW_LIMIT - 1)

firstRows(p) == Slice(processedRows(p), 0, PREVIEW_LIMIT)

\* the remainder starting one row late
lastRows_skip(p) == SliceFrom(processedRows(p), PREVIEW_LIMIT + 1)

lastRows(p) == SliceFrom(processedRows(p), PREVIEW_LIMIT)

\* the first set rendered without looking at deferLogs
firstLogRows_noDefer(p, st) ==
    IF hasData(p)
    THEN LET first == firstRows(p)
             duplicates == showDuplicates(p)
             labels == st.showLabels /\ hasLabel(p)
         IN  [index \in 1..Len(first) |->
                [key |-> index - 1,
                 row |-> first[index],
                 highlighterExpressions |-> "highlighterExpressions",
                 showDuplicates |-> duplicates,
                 showLabels |-> labels,
                 showTime |-> st.showTime]]
    ELSE <<>>

\* the LogRow elements of the first set: these get the highlighterExpressions
firstLogRows(p, st) ==
    IF hasData(p) /\ ~st.deferLogs
    THEN LET first == firstRows(p)
             duplicates == showDuplicates(p)
             labels == st.showLabels /\ hasLabel(p)
         IN  [index \in 1..Len(first) |->
                [key |-> index - 1,
                 row |-> first[index],
                 highlighterExpressions |-> "highlighterExpressions",
                 showDuplicates |-> duplicates,
                 showLabels |-> labels,
                 showTime |-> st.showTime]]
    ELSE <<>>

\* the remainder rendered without looking at deferLogs
lastLogRows_noDefer(p, st) ==
    IF hasData(p) /\ st.renderAll
    THEN LET last == lastRows(p)
             duplicates == showDuplicates(p)
             labels == st.showLabels /\ hasLabel(p)
         IN  [index \in 1..Len(last) |->
                [key |-> PREVIEW_LIMIT + index - 1,
                 row |-> last[index],
                 showDuplicates |-> duplicates,
                 showLabels |-> labels,
                 showTime |-> st.showTime]]
    ELSE <<>>

\* the LogRow elements of the remainder
lastLogRows(p, st) ==
    IF hasData(p) /\ ~st.deferLogs /\ st.renderAll
    THEN LET last == lastRows(p)
             duplicates == showDuplicates(p)
             labels == st.showLabels /\ hasLabel(p)
         IN  [index \in 1..Len(last) |->
                [key |-> PREVIEW_LIMIT + index - 1,
                 row |-> last[index],
                 showDuplicates |-> duplicates,
                 showLabels |-> labels,
                 showTime |-> st.showTime]]
    ELSE <<>>

\* <div className="logs-rows">: the LogRow elements, then the placeholder
logsRows(p, st) ==
    [rows |-> firstLogRows(p, st) \o lastLogRows(p, st),
     placeholder |-> IF hasData(p) /\ st.deferLogs
                     THEN <<Len(processedRows(p))>>
                     ELSE <<>>]

\* const { loading = false, scanning } = this.props
loading(p) == IF "loading" \in DOMAIN p THEN p.loading ELSE FALSE

scanning(p) == IF "scanning" \in DOMAIN p THEN p.scanning ELSE FALSE

\* the item pushed to meta
dedupCountItem(p) == [label |-> "Dedup count", value |-> dedupCount(p), kind |-> "Number"]

\* the item pushed only when rows were folded
meta_whenFolded(p) ==
    LET copy == IF "meta" \in DOMAIN p.data THEN p.data.meta ELSE <<>>
    IN  [meta |-> IF p.dedupStrategy # "none" /\ dedupCount(p) > 0
                  THEN Append(copy, dedupCountItem(p))
                  ELSE copy,
         dataMeta |-> IF "meta" \in DOMAIN p.data THEN <<p.data.meta>> ELSE <<>>]

\* const meta = data.meta ? [...data.meta] : [], then the push: the list
\* assembled, and data.meta (if any) as the push leaves it; p has data
meta(p) ==
    LET copy == IF "meta" \in DOMAIN p.data THEN p.data.meta ELSE <<>>
    IN  [meta |-> IF p.dedupStrategy # "none"
                  THEN Append(copy, dedupCountItem(p))
                  ELSE copy,
         dataMeta |-> IF "meta" \in DOMAIN p.data THEN <<p.data.meta>> ELSE <<>>]

\* <div className="logs-panel-meta">: the items, shown with data only
logsPanelMeta(p) == IF hasData(p) THEN meta(p).meta ELSE <<>>

\* the "No logs found." block
logsPanelNoData(p) == ~loading(p) /\ ~hasData(p) /\ ~scanning(p)

\* the "Scanning..." block
logsPanelScanning(p) == scanning(p)

\* render() without the early return
render_noNull(p, st) ==
    [rows |-> logsRows(p, st).rows,
     placeholder |-> logsRows(p, st).placeholder,
     rendered |-> TRUE,
     meta |-> logsPanelMeta(p),
     nodata |-> logsPanelNoData(p),
     scanning |-> logsPanelScanning(p)]

\* render() returns null without data
render(p, st) ==
    IF "data" \notin DOMAIN p
    THEN [rows |-> <<>>, placeholder |-> <<>>, rendered |-> FALSE,
          meta |-> <<>>, nodata |-> FALSE, scanning |-> FALSE]
    ELSE [rows |-> logsRows(p, st).rows,
          placeholder |-> logsRows(p, st).placeholder,
          rendered |-> TRUE,
          meta |-> logsPanelMeta(p),
          nodata |-> logsPanelNoData(p),
          scanning |-> logsPanelScanning(p)]

----------------------------------------------------------------------------
(* Lifecycle *)

\* the count taken from the rows to display
rowCount_processed(p) == Len(processedRows(p))

\* const rowCount = data && data.rows ? data.rows.length : 0
rowCount(p) ==
    IF "data" \in DOMAIN p /\ "rows" \in DOMAIN p.data
    THEN Len(p.data.rows)
    ELSE 0

\* the threshold with a strict comparison
renderAllEligible_strict(n) == n < PREVIEW_LIMIT * 2

\* const renderAll = rowCount <= PREVIEW_LIMIT * 2
renderAllEligible(n) == n <= PREVIEW_LIMIT * 2

\* both timers set at mount
componentDidMount_both ==
    /\ lifecycle = "constructed"
    /\ lifecycle' = "mounted"
    /\ initialCount' = rowCount(props)
    /\ timers' = << [callback |-> "deferLogs",
                     renderAll |-> renderAllEligible(rowCount(props)),
                     delay |-> rowCount(props),
                     status |-> "pending"],
                    [callback |-> "renderAll",
                     delay |-> RENDER_ALL_DELAY,
                     status |-> "pending"] >>
    /\ deferLogsTimer' = 1
    /\ renderAllTimer' = 2
    /\ UNCHANGED <<props, state, owner, levelOwner>>

componentDidMount ==
    /\ lifecycle = "constructed"
    /\ lifecycle' = "mounted"
    /\ initialCount' = rowCount(props)
    /\ IF state.deferLogs
       THEN /\ timers' = Append(timers,
                   [callback |-> "deferLogs",
                    renderAll |-> renderAllEligible(rowCount(props)),
                    delay |-> rowCount(props),
                    status |-> "pending"])
            /\ deferLogsTimer' = NextHandle(timers)
       ELSE UNCHANGED <<timers, deferLogsTimer>>
    /\ UNCHANGED <<props, state, renderAllTimer, owner, levelOwner>>

\* the second timer set whenever the state is partial, whatever it was before
componentDidUpdate_noPrev(prevState, cur, tq, handle) ==
    IF ~cur.deferLogs /\ ~cur.renderAll
    THEN [timers |-> Append(tq, [callback |-> "renderAll",
                                 delay |-> RENDER_ALL_DELAY,
                                 status |-> "pending"]),
          renderAllTimer |-> NextHandle(tq)]
    ELSE [timers |-> tq, renderAllTimer |-> handle]

\* the second timer set without waiting for deferLogs to be cleared
componentDidUpdate_early(prevState, cur, tq, handle) ==
    IF prevState.deferLogs /\ ~cur.renderAll
    THEN [timers |-> Append(tq, [callback |-> "renderAll",
                                 delay |-> RENDER_ALL_DELAY,
                                 status |-> "pending"]),
          renderAllTimer |-> NextHandle(tq)]
    ELSE [timers |-> tq, renderAllTimer |-> handle]

\* the second timer set when renderAll is already true
componentDidUpdate_negated(prevState, cur, tq, handle) ==
    IF prevState.deferLogs /\ ~cur.deferLogs /\ cur.renderAll
    THEN [timers |-> Append(tq, [callback |-> "renderAll",
                                 delay |-> RENDER_ALL_DELAY,
                                 status |-> "pending"]),
          renderAllTimer |-> NextHandle(tq)]
    ELSE [timers |-> tq, renderAllTimer |-> handle]

\* componentDidUpdate(prevProps, prevState) with this.state = cur: the timers
\* and the renderAllTimer handle it leaves
componentDidUpdate(prevState, cur, tq, handle) ==
    IF prevState.deferLogs /\ ~cur.deferLogs /\ ~cur.renderAll
    THEN [timers |-> Append(tq, [callback |-> "renderAll",
                                 delay |-> RENDER_ALL_DELAY,
                                 status |-> "pending"]),
          renderAllTimer |-> NextHandle(tq)]
    ELSE [timers |-> tq, renderAllTimer |-> handle]

\* this.setState(partial) with the host's timers being tq: the update and the
\* componentDidUpdate that follows it; nothing on an unmounted component
SetState(partial, tq) ==
    IF lifecycle = "mounted"
    THEN /\ state' = Merge(state, partial)
         /\ timers' = componentDidUpdate(state, Merge(state, partial), tq,
                                         renderAllTimer).timers
         /\ renderAllTimer' = componentDidUpdate(state, Merge(state, partial), tq,
                                                 renderAllTimer).renderAllTimer
    ELSE /\ state' = state
         /\ timers' = tq
         /\ renderAllTimer' = renderAllTimer

\* a timer that stays set after its callback ran
TimerFires_repeating(h) ==
    /\ h \in DOMAIN timers
    /\ timers[h].status = "pending"
    /\ IF timers[h].callback = "deferLogs"
       THEN SetState([deferLogs |-> FALSE, renderAll |-> timers[h].renderAll], timers)
       ELSE SetState([renderAll |-> TRUE], timers)
    /\ UNCHANGED <<props, deferLogsTimer, lifecycle, initialCount, owner, levelOwner>>

\* the callback of a pending timer runs
\*   () => this.setState({ deferLogs: false, renderAll })
\*   () => this.setState({ renderAll: true })
TimerFires(h) ==
    /\ h \in DOMAIN timers
    /\ timers[h].status = "pending"
    /\ IF timers[h].callback = "deferLogs"
       THEN SetState([deferLogs |-> FALSE, renderAll |-> timers[h].renderAll],
                     [timers EXCEPT ![h].status = "fired"])
       ELSE SetState([renderAll |-> TRUE],
                     [timers EXCEPT ![h].status = "fired"])
    /\ UNCHANGED <<props, deferLogsTimer, lifecycle, initialCount, owner, levelOwner>>

\* new props restarting the reveal timer from the new row count
ReceiveProps_restart(next) ==
    /\ lifecycle = "mounted"
    /\ next # props
    /\ props' = next
    /\ IF state.deferLogs
       THEN /\ timers' = Append(ClearTimeout(timers, deferLogsTimer),
                   [callback |-> "deferLogs",
                    renderAll |-> renderAllEligible(rowCount(next)),
                    delay |-> rowCount(next),
                    status |-> "pending"])
            /\ deferLogsTimer' = NextHandle(timers)
       ELSE UNCHANGED <<timers, deferLogsTimer>>
    /\ UNCHANGED <<state, renderAllTimer, lifecycle, initialCount, owner, levelOwner>>

\* new rows putting the component back to deferred
ReceiveProps_reset(next) ==
    /\ lifecycle = "mounted"
    /\ next # props
    /\ props' = next
    /\ state' = IF rowCount(next) # rowCount(props)
                THEN [state EXCEPT !.deferLogs = TRUE, !.renderAll = FALSE]
                ELSE state
    /\ UNCHANGED <<timers, deferLogsTimer, renderAllTimer, lifecycle, initialCount,
                   owner, levelOwner>>

\* new props from the parent: re-render, then componentDidUpdate
ReceiveProps(next) ==
    /\ lifecycle = "mounted"
    /\ next # props
    /\ props' = next
    /\ timers' = componentDidUpdate(state, state, timers, renderAllTimer).timers
    /\ renderAllTimer' =
           componentDidUpdate(state, state, timers, renderAllTimer).renderAllTimer
    /\ UNCHANGED <<state, deferLogsTimer, lifecycle, initialCount, owner, levelOwner>>

\* a teardown that forgets the second timer
componentWillUnmount_deferOnly ==
    /\ lifecycle = "mounted"
    /\ lifecycle' = "unmounted"
    /\ timers' = IF deferLogsTimer # NoTimer
                 THEN ClearTimeout(timers, deferLogsTimer)
                 ELSE timers
    /\ UNCHANGED <<props, state, deferLogsTimer, renderAllTimer, initialCount, owner, levelOwner>>

componentWillUnmount ==
    /\ lifecycle = "mounted"
    /\ lifecycle' = "unmounted"
    /\ timers' = ClearTimeout(
                    IF deferLogsTimer # NoTimer
                    THEN ClearTimeout(timers, deferLogsTimer)
                    ELSE timers,
                    IF renderAllTimer # NoTimer THEN renderAllTimer ELSE NoTimer)
    /\ UNCHANGED <<props, state, deferLogsTimer, renderAllTimer, initialCount, owner, levelOwner>>

----------------------------------------------------------------------------
(* Handlers *)

\* the candidate passed on whatever is active
dedupNotification_always(active, dedup) == dedup

\* what onChangeDedup(dedup) passes to onDedupStrategyChange
dedupNotification(active, dedup) == IF active = dedup THEN "none" ELSE dedup

\* the owner's record of a call: the value received, with the candidate and
\* the strategy that was active
onDedupStrategyChange(active, dedup) ==
    [candidate |-> dedup,
     active |-> active,
     notified |-> dedupNotification(active, dedup)]

onChangeDedup(dedup) ==
    /\ lifecycle = "mounted"
    /\ owner.calls < MaxCalls
    /\ owner' = IF owner.calls = 0
                THEN [calls |-> 1,
                      last |-> onDedupStrategyChange(props.dedupStrategy, dedup)]
                ELSE [calls |-> owner.calls + 1,
                      last |-> onDedupStrategyChange(props.dedupStrategy, dedup),
                      previous |-> owner.last]
    /\ UNCHANGED <<props, state, deferLogsTimer, renderAllTimer, timers,
                   lifecycle, initialCount, levelOwner>>

\* the arrays of names the graph panel may pass: level names, and one name
\* that is no level
RawLevels == DOMAIN LogLevel \cup {"verbose"}

HiddenRawLevels == UNION { [1..n -> RawLevels] : n \in 0..MaxLevels }

\* LogLevel[level as LogLevel]: the level, or undefined (no element) when the
\* enumeration has no such name
levelOf(level) == IF level \in DOMAIN LogLevel THEN <<LogLevel[level]>> ELSE <<>>

\* hiddenRawLevels.map(level => LogLevel[level as LogLevel])
hiddenLogLevels(hiddenRawLevels) ==
    [i \in 1..Len(hiddenRawLevels) |-> levelOf(hiddenRawLevels[i])]

\* the handler maps the names and calls the owner; it throws nothing
onToggleLogLevel(hiddenRawLevels) ==
    /\ lifecycle = "mounted"
    /\ levelOwner.toggles < MaxCalls
    /\ levelOwner' = [toggles |-> levelOwner.toggles + 1,
                      names |-> hiddenRawLevels,
                      received |-> <<hiddenLogLevels(hiddenRawLevels)>>,
                      error |-> FALSE]
    /\ UNCHANGED <<props, state, deferLogsTimer, renderAllTimer, timers,
                   lifecycle, initialCount, owner>>

onChangeLabels(checked) ==
    /\ lifecycle = "mounted"
    /\ SetState([showLabels |-> checked], timers)
    /\ UNCHANGED <<props, deferLogsTimer, lifecycle, initialCount, owner, levelOwner>>

\* the time toggle writing the labels flag
onChangeTime_labels(checked) ==
    /\ lifecycle = "mounted"
    /\ SetState([showLabels |-> checked], timers)
    /\ UNCHANGED <<props, deferLogsTimer, lifecycle, initialCount, owner, levelOwner>>

onChangeTime(checked) ==
    /\ lifecycle = "mounted"
    /\ SetState([showTime |-> checked], timers)
    /\ UNCHANGED <<props, deferLogsTimer, lifecycle, initialCount, owner, levelOwner>>

----------------------------------------------------------------------------

(* Staged rendering: the lifecycle, the timers, the deliveries of props and *)
(* the display toggles.                                                    *)

Next ==
    \/ componentDidMount
    \/ \E h \in DOMAIN timers : TimerFires(h)
    \/ \E next \in PropsSpace : ReceiveProps(next)
    \/ componentWillUnmount
    \/ \E checked \in BOOLEAN : onChangeLabels(checked)
    \/ \E checked \in BOOLEAN : onChangeTime(checked)

Spec == Init /\ [][Next]_vars

\* React calls componentDidMount once the component is constructed, and the
\* host runs the callback of a timer that stays pending
TimerFiring == \E h \in DOMAIN timers : TimerFires(h)

SpecFair == Spec /\ WF_vars(componentDidMount) /\ WF_vars(TimerFiring)

(* The dedup toggle: onChangeDedup reads props.dedupStrategy and writes    *)
(* nothing of the component; its owner answers, or not, with props         *)
(* carrying another strategy.                                              *)

NextDedup ==
    \/ componentDidMount
    \/ \E dedup \in LogsDedupStrategy : onChangeDedup(dedup)
    \/ \E strategy \in LogsDedupStrategy :
          ReceiveProps([props EXCEPT !.dedupStrategy = strategy])

SpecDedup == Init /\ [][NextDedup]_vars

(* The level toggle: onToggleLogLevel reads its argument only.             *)

NextLevels ==
    \/ componentDidMount
    \/ \E hiddenRawLevels \in HiddenRawLevels : onToggleLogLevel(hiddenRawLevels)

SpecLevels == Init /\ [][NextLevels]_vars

----------------------------------------------------------------------------
(* The staged state and what is on screen *)

Deferred == state.deferLogs

PartialVisible == ~state.deferLogs /\ ~state.renderAll

FullyVisible == ~state.deferLogs /\ state.renderAll

Started == lifecycle # "constructed"

\* the reveal timer is the one componentDidMount set, the complete timer the
\* one componentDidUpdate set
RevealStatus ==
    IF deferLogsTimer \in DOMAIN timers THEN timers[deferLogsTimer].status ELSE "none"

CompleteStatus ==
    IF renderAllTimer \in DOMAIN timers THEN timers[renderAllTimer].status ELSE "none"

\* the rows of the LogRow elements on screen, in order
VisibleWindow ==
    LET elements == render(props, state).rows
    IN  [i \in 1..Len(elements) |-> elements[i].row]

\* the first k of the processed rows
Prefix(k) == SubSeq(processedRows(props), 1, k)

ProcessedCount == Len(processedRows(props))

----------------------------------------------------------------------------
(* C1: a component mounted with at most 2 * PREVIEW_LIMIT raw rows is      *)
(* FullyVisible as soon as its reveal timer has fired, and is never        *)
(* PartialVisible.                                                         *)
C1_SmallSetRevealsFully ==
    (Started /\ initialCount <= 2 * PREVIEW_LIMIT) =>
        /\ ~PartialVisible
        /\ RevealStatus = "fired" => FullyVisible
        /\ RevealStatus # "fired" => Deferred
        /\ renderAllTimer = NoTimer

C1_Witness ==
    /\ initialCount = 2 * PREVIEW_LIMIT
    /\ RevealStatus = "fired"
    /\ FullyVisible

(* C2 as stated: a component mounted with more than 2 * PREVIEW_LIMIT raw  *)
(* rows is PartialVisible with exactly PREVIEW_LIMIT rows on screen once   *)
(* the reveal timer has fired, and FullyVisible with all rows on screen    *)
(* once the complete timer has fired.                                      *)
C2_ExactlyPreviewLimit ==
    (lifecycle = "mounted" /\ initialCount > 2 * PREVIEW_LIMIT) =>
        /\ (RevealStatus = "fired" /\ CompleteStatus # "fired") =>
               (PartialVisible /\ Len(VisibleWindow) = PREVIEW_LIMIT)
        /\ CompleteStatus = "fired" =>
               (FullyVisible /\ Len(VisibleWindow) = initialCount)

(* C2: a component mounted with more than 2 * PREVIEW_LIMIT raw rows is    *)
(* PartialVisible once the reveal timer has fired, showing the first       *)
(* min(PREVIEW_LIMIT, n) of the n current processed rows (none when the    *)
(* raw set is empty or absent), and FullyVisible once the complete timer   *)
(* has fired, showing all n of them.                                       *)
C2_LargeSetRevealsInTwoSteps ==
    (Started /\ initialCount > 2 * PREVIEW_LIMIT) =>
        /\ RevealStatus # "fired" => Deferred
        /\ (RevealStatus = "fired" /\ CompleteStatus # "fired") => PartialVisible
        /\ CompleteStatus = "fired" => FullyVisible
        /\ (lifecycle = "mounted" /\ PartialVisible) =>
               /\ hasData(props) =>
                      VisibleWindow = Prefix(Min(PREVIEW_LIMIT, ProcessedCount))
               /\ (hasData(props) /\ ProcessedCount >= PREVIEW_LIMIT) =>
                      Len(VisibleWindow) = PREVIEW_LIMIT
               /\ ~hasData(props) => VisibleWindow = <<>>
        /\ (lifecycle = "mounted" /\ FullyVisible) =>
               /\ hasData(props) => VisibleWindow = processedRows(props)
               /\ ~hasData(props) => VisibleWindow = <<>>

\* 250 rows: a window of 100 rows, and these are not all the rows
C2_Witness ==
    /\ lifecycle = "mounted"
    /\ initialCount = MaxRows
    /\ PartialVisible
    /\ ProcessedCount = MaxRows
    /\ Len(VisibleWindow) = PREVIEW_LIMIT

(* C3: after componentWillUnmount no timer is pending and the state never  *)
(* changes again; an unmount that cancelled the reveal timer leaves the    *)
(* state as it was constructed.                                            *)
C3_TeardownCancelsTimers ==
    /\ [](lifecycle = "unmounted" =>
            /\ \A h \in DOMAIN timers : timers[h].status # "pending"
            /\ RevealStatus = "cleared" => (state.deferLogs /\ ~state.renderAll))
    /\ [][lifecycle = "unmounted" => (state' = state /\ timers' = timers)]_vars

\* unmounted between the reveal and the complete timer
C3_Witness ==
    /\ lifecycle = "unmounted"
    /\ RevealStatus = "fired"
    /\ CompleteStatus = "cleared"
    /\ PartialVisible

----------------------------------------------------------------------------
(* C4: new props while Deferred leave the timers, their handles and the    *)
(* state as they are; the pending reveal timer keeps the delay and the     *)
(* renderAll computed from initialCount, and the state the reveal leads to *)
(* is the one initialCount decides.                                        *)
C4_DeliveryKeepsRevealTimer ==
    /\ [][(lifecycle = "mounted" /\ Deferred /\ props' # props) =>
            /\ timers' = timers
            /\ deferLogsTimer' = deferLogsTimer
            /\ renderAllTimer' = renderAllTimer
            /\ state' = state]_vars
    /\ [](RevealStatus = "pending" =>
            /\ timers[deferLogsTimer].delay = initialCount
            /\ timers[deferLogsTimer].renderAll = (initialCount <= 2 * PREVIEW_LIMIT))
    /\ []((RevealStatus = "fired" /\ CompleteStatus # "fired") =>
            state.renderAll = (initialCount <= 2 * PREVIEW_LIMIT))

\* Deferred, with rows delivered that would have decided otherwise
C4_Witness ==
    /\ lifecycle = "mounted"
    /\ Deferred
    /\ RevealStatus = "pending"
    /\ initialCount <= 2 * PREVIEW_LIMIT
    /\ rowCount(props) > 2 * PREVIEW_LIMIT

(* C5: once deferLogs is cleared no step sets a timer: the timers and both *)
(* handles stay, whatever props arrive; there is never more than one       *)
(* reveal timer nor more than one complete timer.                          *)
C5_NoTimerAfterDeferred ==
    /\ [][~state.deferLogs =>
            /\ Len(timers') = Len(timers)
            /\ deferLogsTimer' = deferLogsTimer
            /\ renderAllTimer' = renderAllTimer]_vars
    /\ [](\A g, h \in DOMAIN timers : timers[g].callback = timers[h].callback => g = h)

\* FullyVisible after both timers, with rows delivered since the mount
C5_Witness ==
    /\ lifecycle = "mounted"
    /\ FullyVisible
    /\ Len(timers) = 2
    /\ rowCount(props) # initialCount

(* C6: a complete timer exists only when the reveal timer has fired with   *)
(* renderAll false, and renderAll is set only after the reveal timer has   *)
(* fired.                                                                  *)
C6_CompleteAfterReveal ==
    /\ \A h \in DOMAIN timers :
          timers[h].callback = "renderAll" =>
              /\ RevealStatus = "fired"
              /\ ~timers[deferLogsTimer].renderAll
              /\ h = renderAllTimer
              /\ h > deferLogsTimer
    /\ renderAllTimer # NoTimer =>
          (renderAllTimer \in DOMAIN timers /\ timers[renderAllTimer].callback = "renderAll")
    /\ state.renderAll => RevealStatus = "fired"
    /\ ~state.deferLogs => RevealStatus = "fired"

C6_Witness ==
    /\ RevealStatus = "fired"
    /\ CompleteStatus = "fired"
    /\ FullyVisible

\* what render shows if the state had renderAll = ra
RenderWith(ra) == render(props, [state EXCEPT !.renderAll = ra])

(* C7 as stated: while deferLogs is true no row is on screen, whatever     *)
(* renderAll is, and the placeholder with the number of pending rows is.   *)
C7_PlaceholderAlways ==
    (lifecycle # "unmounted" /\ state.deferLogs) =>
        \A ra \in BOOLEAN :
            /\ RenderWith(ra).rows = <<>>
            /\ RenderWith(ra).placeholder = <<ProcessedCount>>

(* C7: while deferLogs is true no row is on screen, whatever renderAll is; *)
(* the placeholder with the number of processed rows is shown when the raw *)
(* set has a row, and nothing is shown in its place when it has none.      *)
C7_DeferredShowsNoRows ==
    (lifecycle # "unmounted" /\ state.deferLogs) =>
        \A ra \in BOOLEAN :
            /\ RenderWith(ra).rows = <<>>
            /\ hasData(props) => RenderWith(ra).placeholder = <<ProcessedCount>>
            /\ ~hasData(props) => RenderWith(ra).placeholder = <<>>

C7_Witness ==
    /\ lifecycle = "mounted"
    /\ state.deferLogs
    /\ ProcessedCount > PREVIEW_LIMIT
    /\ render(props, state).placeholder = <<ProcessedCount>>
    /\ RenderWith(TRUE).rows = <<>>

\* the positions of the elements on screen that carry highlighterExpressions
Highlighted ==
    LET elements == render(props, state).rows
    IN  {i \in 1..Len(elements) : "highlighterExpressions" \in DOMAIN elements[i]}

\* the keys of the elements on screen, in order
Keys ==
    LET elements == render(props, state).rows
    IN  [i \in 1..Len(elements) |-> elements[i].key]

(* C8: in FullyVisible the rows on screen are the processed rows, each     *)
(* once and in their order: the first PREVIEW_LIMIT of them, which carry   *)
(* the highlighterExpressions, then the others, which do not.              *)
C8_FullWindowIsAllRows ==
    (lifecycle # "unmounted" /\ FullyVisible) =>
        /\ VisibleWindow = processedRows(props)
        /\ VisibleWindow = Prefix(Min(PREVIEW_LIMIT, ProcessedCount))
                           \o SubSeq(processedRows(props), PREVIEW_LIMIT + 1, ProcessedCount)
        /\ Keys = [i \in 1..ProcessedCount |-> i - 1]
        /\ Highlighted = 1..Min(PREVIEW_LIMIT, ProcessedCount)

C8_Witness ==
    /\ lifecycle = "mounted"
    /\ FullyVisible
    /\ ProcessedCount > 2 * PREVIEW_LIMIT
    /\ Len(VisibleWindow) = ProcessedCount
    /\ Highlighted = 1..PREVIEW_LIMIT

----------------------------------------------------------------------------
\* the duplicate count of a row, none when the row has no count
DuplicatesOf(row) == IF "duplicates" \in DOMAIN row THEN row.duplicates ELSE 0

\* the sum of the duplicate counts: one element per duplicate of each row
DuplicateTotal ==
    LET rows == processedRows(props)
    IN  Cardinality(UNION { { <<i, k>> : k \in 1..DuplicatesOf(rows[i]) } :
                            i \in 1..Len(rows) })

(* C9: dedupCount is the sum of the duplicate counts of the deduplicated   *)
(* rows, a missing count being 0, and 0 without rows; showDuplicates holds *)
(* exactly when the strategy is not none and that sum is positive; the     *)
(* counts 0, 3, 0, 2 give 5.                                               *)
C9_DedupSummary ==
    LET total == DuplicateTotal
        shown == render(props, state).rows
    IN  /\ dedupCount(props) = total
        /\ showDuplicates(props) = (props.dedupStrategy # "none" /\ total > 0)
        /\ ProcessedCount = 0 => (dedupCount(props) = 0 /\ ~showDuplicates(props))
        /\ processedRows(props) \in {SampleRows, SampleRowsMissing} =>
               dedupCount(props) = 5
        /\ \A i \in 1..Len(shown) :
               shown[i].showDuplicates = (props.dedupStrategy # "none" /\ total > 0)

\* the counts 0, 3, 0, 2 shown with a strategy
C9_Witness ==
    /\ processedRows(props) = SampleRows
    /\ props.dedupStrategy # "none"
    /\ dedupCount(props) = 5
    /\ Len(render(props, state).rows) = 4
    /\ render(props, state).rows[1].showDuplicates

\* a step in which onDedupStrategyChange is called
DedupCalled == owner'.calls = owner.calls + 1

\* the call is the second in a row of the same strategy, not none, the owner
\* having adopted what the first one passed
SameAgain ==
    /\ owner.calls >= 1
    /\ owner'.last.candidate = owner.last.candidate
    /\ owner.last.candidate # "none"
    /\ props.dedupStrategy = owner.last.notified

NotifiedOnce ==
    /\ owner' # owner => DedupCalled
    /\ DedupCalled =>
          /\ owner'.last.active = props.dedupStrategy
          /\ owner'.last.candidate \in LogsDedupStrategy
          /\ owner'.last.notified =
                 IF owner'.last.candidate = props.dedupStrategy
                 THEN "none"
                 ELSE owner'.last.candidate

(* C10 as stated: each onChangeDedup(candidate) calls the owner once, with *)
(* none when candidate is the active strategy and with candidate           *)
(* otherwise; the same strategy, not none, selected twice in a row by an   *)
(* owner that adopts what it is passed ends with none.                     *)
C10_TwiceGivesNone ==
    [][/\ NotifiedOnce
       /\ (DedupCalled /\ SameAgain) => owner'.last.notified = "none"]_vars

(* C10: each onChangeDedup(candidate) calls the owner once, with none when *)
(* candidate is the active strategy and with candidate otherwise; the same *)
(* strategy, not none, selected twice in a row by an owner that adopts     *)
(* what it is passed ends with none when it was not active before the      *)
(* first selection, and with that strategy when it was.                    *)
C10_DedupToggle ==
    [][/\ NotifiedOnce
       /\ (DedupCalled /\ SameAgain) =>
             owner'.last.notified =
                 IF owner.last.active # owner.last.candidate
                 THEN "none"
                 ELSE owner.last.candidate]_vars

\* the same strategy selected twice, the owner adopting: on, then off
C10_Witness ==
    /\ owner.calls >= 2
    /\ owner.previous.candidate = owner.last.candidate
    /\ owner.last.candidate # "none"
    /\ owner.previous.active # owner.last.candidate
    /\ owner.last.active = owner.previous.notified
    /\ owner.last.notified = "none"

----------------------------------------------------------------------------
\* the metadata of the raw set as delivered, none when it has none
RawMeta == IF "meta" \in DOMAIN props.data THEN props.data.meta ELSE <<>>

(* C11: with data, the meta list assembled by render is the raw metadata,  *)
(* followed by one "Dedup count" item holding dedupCount exactly when the  *)
(* strategy is not none, whatever the count and also without rows; the     *)
(* metadata delivered stays as it was; the list is what the meta panel     *)
(* shows when there are rows.                                              *)
C11_MetaItems ==
    "data" \in DOMAIN props =>
        LET assembled == meta(props)
        IN  /\ props.dedupStrategy = "none" => assembled.meta = RawMeta
            /\ props.dedupStrategy # "none" =>
                   assembled.meta =
                       Append(RawMeta, [label |-> "Dedup count",
                                        value |-> DuplicateTotal,
                                        kind |-> "Number"])
            /\ \A i \in 1..Len(RawMeta) : assembled.meta[i] = RawMeta[i]
            /\ "meta" \in DOMAIN props.data => assembled.dataMeta = <<RawMeta>>
            /\ hasData(props) => render(props, state).meta = assembled.meta

\* a strategy, no row: the item is there, with 0
C11_Witness ==
    /\ "data" \in DOMAIN props
    /\ lifecycle = "mounted"
    /\ rowCount(props) = 0
    /\ props.dedupStrategy # "none"
    /\ meta(props).meta
         = Append(SampleMeta, [label |-> "Dedup count", value |-> 0, kind |-> "Number"])

----------------------------------------------------------------------------
\* every name of the last toggle is a name of the enumeration
NamesRecognized ==
    \A i \in 1..Len(levelOwner.names) : levelOwner.names[i] \in DOMAIN LogLevel

(* C12: after onToggleLogLevel(names), when every name is a log level the  *)
(* owner has received exactly the levels the names stand for and there was *)
(* no error; when a name is not a log level the handler has failed and the *)
(* owner has received nothing.                                             *)
C12_UnknownLevelFails ==
    levelOwner.toggles > 0 =>
        /\ NamesRecognized =>
               /\ ~levelOwner.error
               /\ levelOwner.received =
                      << [i \in 1..Len(levelOwner.names) |->
                             <<LogLevel[levelOwner.names[i]]>>] >>
        /\ ~NamesRecognized =>
               /\ levelOwner.error
               /\ levelOwner.received = <<>>

----------------------------------------------------------------------------
\* what render gives when it returns null
Nothing ==
    [rows |-> <<>>, placeholder |-> <<>>, rendered |-> FALSE,
     meta |-> <<>>, nodata |-> FALSE, scanning |-> FALSE]

DataAbsent == "data" \notin DOMAIN props

(* C13: without data render gives nothing, in every staged state and       *)
(* whatever loading and scanning are; the component mounted without data   *)
(* sets its reveal timer as for 0 rows, and without data the timers fire   *)
(* and move the state as they do with data.                                *)
C13_AbsentDataRendersNothing ==
    /\ []((DataAbsent /\ lifecycle # "unmounted") =>
            \A dl, ra \in BOOLEAN :
                render(props, [state EXCEPT !.deferLogs = dl, !.renderAll = ra]) = Nothing)
    /\ [][(DataAbsent /\ lifecycle = "constructed" /\ lifecycle' = "mounted") =>
            /\ initialCount' = 0
            /\ timers' = << [callback |-> "deferLogs", renderAll |-> TRUE,
                             delay |-> 0, status |-> "pending"] >>
            /\ deferLogsTimer' = 1]_vars
    /\ [][(DataAbsent /\ RevealStatus = "pending" /\ RevealStatus' = "fired") =>
            IF timers[deferLogsTimer].renderAll
            THEN FullyVisible' /\ CompleteStatus' = "none"
            ELSE PartialVisible' /\ CompleteStatus' = "pending"]_vars
    /\ [][(DataAbsent /\ CompleteStatus = "pending" /\ CompleteStatus' = "fired") =>
            FullyVisible']_vars

\* no data, a scan going on: nothing on screen, and the state has advanced
C13_Witness ==
    /\ lifecycle = "mounted"
    /\ DataAbsent
    /\ scanning(props)
    /\ initialCount = 0
    /\ RevealStatus = "fired"
    /\ FullyVisible
    /\ render(props, state) = Nothing

----------------------------------------------------------------------------
\* a step that leaves the props, the timers, their handles and the owners
TimersAndOwnersKept ==
    UNCHANGED <<props, deferLogsTimer, renderAllTimer, timers, lifecycle,
                owner, levelOwner>>

(* C14: onChangeLabels changes showLabels only and onChangeTime showTime   *)
(* only: deferLogs, renderAll, the timers and their handles stay, no timer *)
(* is set or cleared by the update that follows, and no owner is called.   *)
C14_TogglesAreLocal ==
    /\ [][\A checked \in BOOLEAN :
            /\ onChangeLabels(checked) =>
                   (state' = [state EXCEPT !.showLabels = checked] /\ TimersAndOwnersKept)
            /\ onChangeTime(checked) =>
                   (state' = [state EXCEPT !.showTime = checked] /\ TimersAndOwnersKept)]_vars
    /\ [][(state'.showLabels # state.showLabels \/ state'.showTime # state.showTime) =>
            /\ state'.deferLogs = state.deferLogs
            /\ state'.renderAll = state.renderAll
            /\ TimersAndOwnersKept]_vars

\* both toggles used between the two timers
C14_Witness ==
    /\ lifecycle = "mounted"
    /\ PartialVisible
    /\ CompleteStatus = "pending"
    /\ state.showLabels
    /\ ~state.showTime

----------------------------------------------------------------------------
\* the number of raw rows in the props, 0 without data or without rows
RawCount ==
    IF "data" \in DOMAIN props
    THEN IF "rows" \in DOMAIN props.data THEN Len(props.data.rows) ELSE 0
    ELSE 0

\* the handles of the timers set with the callback cb
TimersOf(cb) == {h \in DOMAIN timers : timers[h].callback = cb}

(* C15: componentDidMount sets one reveal timer, its delay the number of   *)
(* raw rows in the props at that moment (0 without data or rows) and its   *)
(* renderAll that number <= 2 * PREVIEW_LIMIT; a reveal that leaves the    *)
(* state partial sets the complete timer with the delay 2000, a reveal to  *)
(* FullyVisible sets none.                                                 *)
C15_TimerDelays ==
    /\ [][(lifecycle = "constructed" /\ lifecycle' = "mounted") =>
            /\ initialCount' = RawCount
            /\ timers' = << [callback |-> "deferLogs",
                             renderAll |-> (RawCount <= 2 * PREVIEW_LIMIT),
                             delay |-> RawCount,
                             status |-> "pending"] >>
            /\ deferLogsTimer' = 1
            /\ renderAllTimer' = NoTimer]_vars
    /\ [](Started =>
            /\ TimersOf("deferLogs") = {deferLogsTimer}
            /\ timers[deferLogsTimer].delay = initialCount
            /\ timers[deferLogsTimer].renderAll = (initialCount <= 2 * PREVIEW_LIMIT))
    /\ [](\A h \in TimersOf("renderAll") : timers[h].delay = 2000)
    /\ [][(RevealStatus = "pending" /\ RevealStatus' = "fired") =>
            IF FullyVisible'
            THEN timers' = [timers EXCEPT ![deferLogsTimer].status = "fired"]
            ELSE timers' = Append([timers EXCEPT ![deferLogsTimer].status = "fired"],
                                  [callback |-> "renderAll", delay |-> 2000,
                                   status |-> "pending"])]_vars

\* 250 rows at mount: a reveal timer of 250, then a complete timer of 2000
C15_Witness ==
    /\ Started
    /\ initialCount = MaxRows
    /\ timers[deferLogsTimer].delay = MaxRows
    /\ ~timers[deferLogsTimer].renderAll
    /\ CompleteStatus = "pending"
    /\ timers[renderAllTimer].delay = 2000
    /\ ProcessedCount < MaxRows

----------------------------------------------------------------------------
\* the staged state
Staged == <<state.deferLogs, state.renderAll>>

(* C16: the staged state changes only from Deferred to PartialVisible,     *)
(* from Deferred to FullyVisible and from PartialVisible to FullyVisible:  *)
(* deferLogs never becomes true again, renderAll never false again, and no *)
(* step leaves FullyVisible.                                               *)
C16_ForwardOnly ==
    [][/\ state'.deferLogs => state.deferLogs
       /\ state.renderAll => state'.renderAll
       /\ FullyVisible => FullyVisible'
       /\ Staged' # Staged =>
             \/ (Deferred /\ ~state.renderAll /\ PartialVisible')
             \/ (Deferred /\ ~state.renderAll /\ FullyVisible')
             \/ (PartialVisible /\ FullyVisible')]_vars

\* FullyVisible through both timers, after deliveries, a strategy and toggles
C16_Witness ==
    /\ lifecycle = "mounted"
    /\ FullyVisible
    /\ CompleteStatus = "fired"
    /\ rowCount(props) # initialCount
    /\ props.dedupStrategy # "none"
    /\ state.showLabels
    /\ ~state.showTime

----------------------------------------------------------------------------
(* C17: a component that is never unmounted, and whose pending timers      *)
(* fire, is eventually FullyVisible and stays so, whatever it was mounted  *)
(* with and whatever props and toggles come in between.                    *)
C17_EventuallyFullyVisible ==
    [](lifecycle # "unmounted") => <>[]FullyVisible

\* FullyVisible reached through both timers
C17_Witness ==
    /\ lifecycle = "mounted"
    /\ initialCount > 2 * PREVIEW_LIMIT
    /\ RevealStatus = "fired"
    /\ CompleteStatus = "fired"
    /\ FullyVisible
    /\ \A h \in DOMAIN timers : timers[h].status # "pending"

----------------------------------------------------------------------------
(* C18: renderAll is true only when deferLogs is false.                    *)
C18_RenderAllImpliesRevealed == state.renderAll => ~state.deferLogs

\* renderAll set by the reveal itself, no second timer
C18_Witness ==
    /\ state.renderAll
    /\ ~state.deferLogs
    /\ RevealStatus = "fired"
    /\ renderAllTimer = NoTimer

\* the handles of the timers that are pending
Pending == {h \in DOMAIN timers : timers[h].status = "pending"}

(* C19: at most one timer is pending; a mounted component has set one      *)
(* reveal timer and at most one complete timer, a component not yet        *)
(* mounted none; the reveal timer is pending only while Deferred and the   *)
(* complete timer only while PartialVisible.                               *)
C19_OneTimerAtATime ==
    /\ Cardinality(Pending) <= 1
    /\ Cardinality(TimersOf("deferLogs")) = (IF Started THEN 1 ELSE 0)
    /\ Cardinality(TimersOf("renderAll")) <= 1
    /\ \A h \in Pending :
          /\ timers[h].callback = "deferLogs" => (Deferred /\ h = deferLogsTimer)
          /\ timers[h].callback = "renderAll" => (PartialVisible /\ h = renderAllTimer)

\* the complete timer pending, the reveal timer done
C19_Witness ==
    /\ lifecycle = "mounted"
    /\ PartialVisible
    /\ RevealStatus = "fired"
    /\ Pending = {renderAllTimer}

----------------------------------------------------------------------------
(* C20: the rows on screen are the first rows of the processed set: none   *)
(* while Deferred or when the raw set has no row, the first                *)
(* min(PREVIEW_LIMIT, n) of its n rows in PartialVisible, all n in         *)
(* FullyVisible; never more than PREVIEW_LIMIT before FullyVisible.        *)
C20_WindowIsPrefix ==
    lifecycle # "unmounted" =>
        LET window == VisibleWindow
        IN  /\ window = Prefix(Len(window))
            /\ Len(window) =
                   IF Deferred \/ RawCount = 0
                   THEN 0
                   ELSE IF PartialVisible
                        THEN Min(PREVIEW_LIMIT, ProcessedCount)
                        ELSE ProcessedCount
            /\ ~FullyVisible => Len(window) <= PREVIEW_LIMIT

\* mounted with few rows, so FullyVisible at once; then more rows than twice
\* the limit arrive and all are on screen
C20_Witness ==
    /\ lifecycle = "mounted"
    /\ initialCount <= 2 * PREVIEW_LIMIT
    /\ FullyVisible
    /\ renderAllTimer = NoTimer
    /\ ProcessedCount > 2 * PREVIEW_LIMIT
    /\ Len(VisibleWindow) = ProcessedCount

====
